---- MODULE Spec2Model ----
(***************************************************************************)
(* Model of the recorder upload pipeline: the POST /upload handler of      *)
(* server.js (refresh-token variant) and of its service-account variant,   *)
(* the scratch directory /tmp/uploads, the clock behind Date.now(), and    *)
(* the three upstream services (Whisper, Google Drive, AmoCRM).            *)
(* Strings that the code inspects character by character (MIME types) are  *)
(* sequences of one-character strings; other strings are tuples of their   *)
(* template parts.                                                         *)
(***************************************************************************)
EXTENDS Integers, Sequences, FiniteSets, TLC

VARIABLES variant, now, fs, req, pc, loc, calls, ok, thrown, resp, drive, crmNotes

vars == <<variant, now, fs, req, pc, loc, calls, ok, thrown, resp, drive, crmNotes>>

\* ---------------------------------------------------------------- bounds
\* Number of POST /upload requests in flight.
NumReq == 2

\* Largest time, in milliseconds since the start, that Date.now() returns.
MaxClock == 1

Requests == 1..NumReq

\* ------------------------------------------------------- string literals
KwMp4 == <<"m", "p", "4">>

KwM4a == <<"m", "4", "a">>

KwOgg == <<"o", "g", "g">>

KwWav == <<"w", "a", "v">>

KwMpeg == <<"m", "p", "e", "g">>

KwMp3 == <<"m", "p", "3">>

AudioWebm == <<"a", "u", "d", "i", "o", "/", "w", "e", "b", "m">>

AudioMp4 == <<"a", "u", "d", "i", "o", "/", "m", "p", "4">>

AudioXM4a == <<"a", "u", "d", "i", "o", "/", "x", "-", "m", "4", "a">>

AudioOgg == <<"a", "u", "d", "i", "o", "/", "o", "g", "g">>

AudioWav == <<"a", "u", "d", "i", "o", "/", "w", "a", "v">>

AudioMpeg == <<"a", "u", "d", "i", "o", "/", "m", "p", "e", "g">>

AudioMp3 == <<"a", "u", "d", "i", "o", "/", "m", "p", "3">>

AudioFlac == <<"a", "u", "d", "i", "o", "/", "f", "l", "a", "c">>

VideoWebm == <<"v", "i", "d", "e", "o", "/", "w", "e", "b", "m">>

NoParams == <<>>

CodecsOpus == <<";", "c", "o", "d", "e", "c", "s", "=", "o", "p", "u", "s">>

SpCodecsOpus == <<";", " ", "c", "o", "d", "e", "c", "s", "=", "o", "p", "u", "s">>

CodecsVorbisSp == <<" ", ";", "c", "o", "d", "e", "c", "s", "=", "v", "o", "r", "b", "i", "s">>

CodecsMp4a == <<";", "c", "o", "d", "e", "c", "s", "=", "m", "p", "4", "a", ".", "4", "0", ".", "2">>

CodecsMp3 == <<";", "c", "o", "d", "e", "c", "s", "=", "m", "p", "3">>

CodecsVp8Wav == <<";", "c", "o", "d", "e", "c", "s", "=", "v", "p", "8", ",", "w", "a", "v">>

\* -------------------------------------------------------- Format Resolver
\* String.prototype.includes: kw occurs in s as a contiguous substring.
Includes(s, kw) ==
  \E i \in 1..(Len(s) - Len(kw) + 1) : SubSeq(s, i, i + Len(kw) - 1) = kw

\* s.split(';')[0]: everything before the first ';' (all of s if none).
SplitFirst(s) ==
  LET semis == {i \in 1..Len(s) : s[i] = ";"}
      cut == IF semis = {} THEN Len(s) + 1
             ELSE CHOOSE i \in semis : \A j \in semis : i <= j
  IN SubSeq(s, 1, cut - 1)

RECURSIVE TrimLeft(_)
TrimLeft(s) == IF s # <<>> /\ Head(s) = " " THEN TrimLeft(Tail(s)) ELSE s

RECURSIVE TrimRight(_)
TrimRight(s) ==
  IF s # <<>> /\ s[Len(s)] = " " THEN TrimRight(SubSeq(s, 1, Len(s) - 1)) ELSE s

\* String.prototype.trim
Trim(s) == TrimRight(TrimLeft(s))

mimeToExt(mime) ==
  IF Includes(mime, KwMp4) \/ Includes(mime, KwM4a) THEN "mp4"
  ELSE IF Includes(mime, KwOgg) THEN "ogg"
  ELSE IF Includes(mime, KwWav) THEN "wav"
  ELSE IF Includes(mime, KwMpeg) \/ Includes(mime, KwMp3) THEN "mp3"
  ELSE "webm"

Variants == {"server.js", "part_000"}

\* The string transcribeAudio hands to mimeToExt and sends as contentType:
\* server.js strips the codec parameters first, the service-account variant
\* passes the MIME type as received.
baseMime(v, mimetype) ==
  IF v = "server.js" THEN Trim(SplitFirst(mimetype)) ELSE mimetype

\* The multipart filename transcribeAudio gives the audio: `audio.${ext}`.
filename(v, mimetype) == <<"audio.", mimeToExt(baseMime(v, mimetype))>>

\* MIME types a client can send: a base type followed by parameters.
Bases == {AudioWebm, AudioMp4, AudioXM4a, AudioOgg, AudioWav, AudioMpeg,
          AudioMp3, AudioFlac, VideoWebm}

Params == {NoParams, CodecsOpus, SpCodecsOpus, CodecsVorbisSp, CodecsMp4a,
           CodecsMp3, CodecsVp8Wav}

AllMimes == {[base |-> b, params |-> p] : b \in Bases, p \in Params}

\* The MIME types used when the whole pipeline is explored.
MainMimes == {[base |-> AudioWebm, params |-> CodecsOpus]}

\* ------------------------------------------------------- scratch storage
\* fs maps each existing path to the content of its file.
Exists(f, p) == p \in DOMAIN f

Write(f, p, c) == [q \in (DOMAIN f) \cup {p} |-> IF q = p THEN c ELSE f[q]]

Remove(f, p) == [q \in (DOMAIN f) \ {p} |-> f[q]]

\* multer({ dest: '/tmp/uploads/' }) stores the upload under a random name
\* that is unique to the request.
AudioPath(r) == <<"/tmp/uploads/", r>>

Mp3Path(r) == <<"/tmp/uploads/", r, ".mp3">>

audioFileName(dealId, ts) == <<"deal_", dealId, "_audio_", ts, ".mp3">>

textFileName(dealId, ts) == <<"deal_", dealId, "_transcription_", ts, ".txt">>

TextPath(name) == <<"/tmp/uploads/">> \o name

ViewUrl(id) == <<"https://drive.google.com/file/d/", id, "/view">>

\* The note body, as the sequence of the parts the template joins: the
\* heading, the transcript, and the two labelled view URLs.
noteText(transcription, audioFileId, textFileId) ==
  <<<<"Transcript:">>, transcription, <<"Audio:">>, ViewUrl(audioFileId),
    <<"Text:">>, ViewUrl(textFileId)>>

\* ------------------------------------------------------------ small sets
DealIds == {"", "17"}

\* The text Whisper returns for the audio of request r.
Text(r) == <<"transcript of", r>>

Details == {"upstream failed"}

NoText == <<>>
NoId == <<>>
NoPath == <<>>
NoError == <<>>

StageOrder == <<"Transcribing", "Transcoding", "ArchivingAudio",
                "ArchivingTranscript", "Notifying", "CleaningUp", "Done">>

NoLoc == [filename |-> <<>>, transcription |-> NoText, audioFileName |-> <<>>,
          audioFileId |-> NoId, textPath |-> NoPath, textSent |-> NoText,
          textFileId |-> NoId, noteText |-> <<>>]

NoReq == [dealId |-> "", hasFile |-> FALSE, base |-> <<>>, params |-> <<>>]

NoResp == [status |-> 0]

NoThrown == [stage |-> "none", message |-> NoError]

\* Date.now(): the millisecond clock never runs backwards, so a reading is
\* the previous reading `now` or a later time.
DateNow == now..MaxClock

\* ------------------------------------------------------------------ Init
Init ==
  /\ variant \in Variants
  /\ now = 0
  /\ fs = <<>>
  /\ req = [r \in Requests |-> NoReq]
  /\ pc = [r \in Requests |-> "idle"]
  /\ loc = [r \in Requests |-> NoLoc]
  /\ calls = [r \in Requests |-> <<>>]
  /\ ok = [r \in Requests |-> {}]
  /\ thrown = [r \in Requests |-> NoThrown]
  /\ resp = [r \in Requests |-> NoResp]
  /\ drive = {}
  /\ crmNotes = {}

\* --------------------------------------------------------------- helpers
\* A faulty entry check that rejects only when both inputs are missing.
EntryRejectedBoth(dealId, hasFile) == dealId = "" /\ ~hasFile

\* The entry check `if (!dealId || !audioPath)`.
EntryRejected(dealId, hasFile) == dealId = "" \/ ~hasFile

\* The message of the error transcribeAudio throws when the Whisper call
\* fails with `detail`: server.js wraps it, the service-account variant lets
\* the HTTP client's error through.
WhisperError(v, detail) ==
  IF v = "server.js" THEN <<"Whisper error: ", detail>> ELSE <<detail>>

ENOENT(p) == <<"ENOENT: no such file or directory, unlink">> \o p

\* A faulty error response that hides the caught message.
ErrorBodyGeneric(message) == <<"Internal Server Error">>

\* The value of `error` in the 500 response for a caught error message.
ErrorBody(message) == message

\* A faulty handler that goes on whatever the upstream call's outcome.
ProceedsAlways(outcome) == TRUE

\* Whether the handler goes on to the next stage after an upstream call
\* settled: `await` rethrows a rejection into the catch block.
Proceeds(outcome) == outcome = "resolved"

\* The stages of a request that have completed successfully, after `stage`
\* settled with `outcome`.
Settled(done, stage, outcome) ==
  IF outcome = "resolved" THEN done \cup {stage} ELSE done

\* The catch block's deletions: audioPath and mp3Path, each if it exists.
CatchFs(f, r) ==
  LET f1 == IF Exists(f, AudioPath(r)) THEN Remove(f, AudioPath(r)) ELSE f
      f2 == IF Exists(f1, Mp3Path(r)) THEN Remove(f1, Mp3Path(r)) ELSE f1
  IN f2

\* A faulty success path that deletes audioPath and mp3Path only.
CleanupFsKeepsText(f, r, textPath) ==
  IF ~Exists(f, <<"/tmp/uploads/", r>>)
  THEN [fs |-> f, err |-> <<"ENOENT">>]
  ELSE [fs |-> [q \in (DOMAIN f) \ {<<"/tmp/uploads/", r>>, <<"/tmp/uploads/", r, ".mp3">>}
                  |-> f[q]],
        err |-> <<>>]

\* The success path's deletions, in order; unlinkSync throws on a missing
\* file and leaves the earlier deletions done.
CleanupFs(f, r, textPath) ==
  IF ~Exists(f, AudioPath(r)) THEN [fs |-> f, err |-> ENOENT(AudioPath(r))]
  ELSE LET f1 == Remove(f, AudioPath(r))
           f2 == IF Exists(f1, Mp3Path(r)) THEN Remove(f1, Mp3Path(r)) ELSE f1
       IN IF ~Exists(f2, textPath) THEN [fs |-> f2, err |-> ENOENT(textPath)]
          ELSE [fs |-> Remove(f2, textPath), err |-> NoError]

\* The catch block, entered with the error `message` thrown in `stage` while
\* scratch storage is f; `began` are the stages logged by the same step.
Catch(r, stage, message, f, began) ==
  /\ fs' = CatchFs(f, r)
  /\ thrown' = [thrown EXCEPT ![r] = [stage |-> stage, message |-> message]]
  /\ resp' = [resp EXCEPT ![r] = [status |-> 500, error |-> ErrorBody(message)]]
  /\ calls' = [calls EXCEPT ![r] = @ \o began \o <<"Failed">>]
  /\ pc' = [pc EXCEPT ![r] = "done"]

\* ------------------------------------------------------------ operations
\* upload.single('audio'): multer parses the form and stores the audio part,
\* if there is one, in scratch storage before the handler runs.
UploadWith(r, mimes) ==
  /\ pc[r] = "idle"
  /\ \E d \in DealIds, hasFile \in BOOLEAN, m \in mimes :
       /\ req' = [req EXCEPT ![r] = [dealId |-> d, hasFile |-> hasFile,
                                      base |-> IF hasFile THEN m.base ELSE <<>>,
                                      params |-> IF hasFile THEN m.params ELSE <<>>]]
       /\ fs' = IF hasFile THEN Write(fs, AudioPath(r), <<"audio", r>>) ELSE fs
  /\ pc' = [pc EXCEPT ![r] = "received"]
  /\ UNCHANGED <<variant, now, loc, calls, ok, thrown, resp, drive, crmNotes>>

Upload(r) == UploadWith(r, MainMimes)

\* The same middleware, for a client that may send any MIME type.
UploadAnyMime(r) == UploadWith(r, AllMimes)

\* The handler up to its first await: the entry check, then the call of
\* transcribeAudio, which builds the multipart filename.
HandlerEntry(r) ==
  /\ pc[r] = "received"
  /\ LET mimetype == IF req[r].hasFile THEN req[r].base \o req[r].params
                     ELSE AudioWebm
     IN IF EntryRejected(req[r].dealId, req[r].hasFile)
        THEN /\ resp' = [resp EXCEPT ![r] =
                           [status |-> 400,
                            error |-> <<"dealId and audio are required">>]]
             /\ pc' = [pc EXCEPT ![r] = "done"]
             /\ UNCHANGED <<loc, calls>>
        ELSE /\ loc' = [loc EXCEPT ![r].filename = filename(variant, mimetype)]
             /\ calls' = [calls EXCEPT ![r] = Append(@, "Transcribing")]
             /\ pc' = [pc EXCEPT ![r] = "Transcribing"]
             /\ UNCHANGED resp
  /\ UNCHANGED <<variant, now, fs, req, ok, thrown, drive, crmNotes>>

\* transcribeAudio settles; on success the handler calls convertToMp3.
TranscribeDone(r) ==
  /\ pc[r] = "Transcribing"
  /\ \E outcome \in {"resolved", "rejected"}, d \in Details :
       IF Proceeds(outcome)
       THEN /\ ok' = [ok EXCEPT ![r] = Settled(@, "Transcribing", outcome)]
            /\ loc' = [loc EXCEPT ![r].transcription = Text(r)]
            /\ calls' = [calls EXCEPT ![r] = Append(@, "Transcoding")]
            /\ pc' = [pc EXCEPT ![r] = "Transcoding"]
            /\ UNCHANGED <<fs, thrown, resp>>
       ELSE /\ Catch(r, "Transcribing", WhisperError(variant, d), fs, <<>>)
            /\ UNCHANGED <<loc, ok>>
  /\ UNCHANGED <<variant, now, req, drive, crmNotes>>

\* convertToMp3 settles: ffmpeg has written mp3Path, or failed and left
\* either nothing or a partial file. On success the handler names the audio
\* and calls uploadToDrive for the MP3.
ConvertDone(r) ==
  /\ pc[r] = "Transcoding"
  /\ \E outcome \in {"resolved", "rejected"}, partial \in BOOLEAN, d \in Details,
        t \in DateNow :
       IF Proceeds(outcome)
       THEN /\ ~partial
            /\ now' = t
            /\ fs' = IF outcome = "resolved" THEN Write(fs, Mp3Path(r), <<"mp3", r>>) ELSE fs
            /\ ok' = [ok EXCEPT ![r] = Settled(@, "Transcoding", outcome)]
            /\ loc' = [loc EXCEPT ![r].audioFileName = audioFileName(req[r].dealId, t)]
            /\ calls' = [calls EXCEPT ![r] = Append(@, "ArchivingAudio")]
            /\ pc' = [pc EXCEPT ![r] = "ArchivingAudio"]
            /\ UNCHANGED <<thrown, resp>>
       ELSE /\ t = now
            /\ Catch(r, "Transcoding", <<d>>,
                     IF partial THEN Write(fs, Mp3Path(r), <<"partial", r>>) ELSE fs, <<>>)
            /\ UNCHANGED <<loc, ok, now>>
  /\ UNCHANGED <<variant, req, drive, crmNotes>>

\* The identifier Drive assigns to the file a files.create call creates:
\* opaque and fresh for every call, named here after the call (request r
\* uploads one file of each kind).
DriveId(r, kind) == <<"id", kind, r>>

\* The file Drive stores for a successful files.create call by request r.
DriveFile(id, r, name, mimeType, folder, content) ==
  [id |-> id, by |-> r, name |-> name, mimeType |-> mimeType,
   folder |-> folder, content |-> content]

\* uploadToDrive of the MP3 settles. On success the handler names the
\* transcript after the deal and Date.now(), writes it to scratch storage
\* (writeFileSync may throw) and calls uploadToDrive for it, which opens a
\* read stream on textPath.
UploadAudioDone(r) ==
  /\ pc[r] = "ArchivingAudio"
  /\ \E outcome \in {"resolved", "rejected"}, written \in BOOLEAN, d \in Details,
        t \in DateNow :
       IF Proceeds(outcome)
       THEN LET name == textFileName(req[r].dealId, t)
                textPath == TextPath(name)
                id == IF outcome = "resolved" THEN DriveId(r, "audio") ELSE NoId
            IN /\ now' = t
               /\ ok' = [ok EXCEPT ![r] = Settled(@, "ArchivingAudio", outcome)]
               /\ IF outcome = "resolved"
                  THEN drive' = drive \cup
                         {DriveFile(id, r, loc[r].audioFileName, "audio/mpeg",
                                    "GOOGLE_DRIVE_AUDIO_FOLDER_ID", <<"mp3", r>>)}
                  ELSE drive' = drive
               /\ IF written
                  THEN /\ fs' = Write(fs, textPath, loc[r].transcription)
                       /\ loc' = [loc EXCEPT ![r].audioFileId = id,
                                             ![r].textPath = textPath]
                       /\ calls' = [calls EXCEPT ![r] = Append(@, "ArchivingTranscript")]
                       /\ pc' = [pc EXCEPT ![r] = "ArchivingTranscript"]
                       /\ UNCHANGED <<thrown, resp>>
                  ELSE /\ Catch(r, "ArchivingTranscript",
                                <<"ENOSPC: no space left on device, write">>, fs,
                                <<"ArchivingTranscript">>)
                       /\ loc' = [loc EXCEPT ![r].audioFileId = id]
       ELSE /\ written
            /\ t = now
            /\ Catch(r, "ArchivingAudio", <<d>>, fs, <<>>)
            /\ UNCHANGED <<loc, ok, drive, now>>
  /\ UNCHANGED <<variant, req, crmNotes>>

\* Drive's HTTP client reads the transcript through the stream opened on
\* textPath: it reads whatever the file holds at that moment.
DriveReadText(r) ==
  /\ pc[r] = "ArchivingTranscript"
  /\ loc[r].textSent = NoText
  /\ Exists(fs, loc[r].textPath)
  /\ loc' = [loc EXCEPT ![r].textSent = fs[loc[r].textPath]]
  /\ UNCHANGED <<variant, now, fs, req, pc, calls, ok, thrown, resp, drive, crmNotes>>

\* uploadToDrive of the transcript settles; on success the handler builds
\* the two view URLs and the note and calls sendAmoCrmNote.
UploadTextDone(r) ==
  /\ pc[r] = "ArchivingTranscript"
  /\ \E outcome \in {"resolved", "rejected"}, d \in Details :
       /\ outcome = "resolved" => loc[r].textSent # NoText
       /\ IF Proceeds(outcome)
          THEN LET id == IF outcome = "resolved" THEN DriveId(r, "text") ELSE NoId
               IN /\ ok' = [ok EXCEPT ![r] = Settled(@, "ArchivingTranscript", outcome)]
                  /\ IF outcome = "resolved"
                     THEN drive' = drive \cup
                            {DriveFile(id, r, SubSeq(loc[r].textPath, 2, 6),
                                       "text/plain", "GOOGLE_DRIVE_TEXT_FOLDER_ID",
                                       loc[r].textSent)}
                     ELSE drive' = drive
                  /\ loc' = [loc EXCEPT ![r].textFileId = id,
                                        ![r].noteText =
                                          noteText(loc[r].transcription,
                                                   loc[r].audioFileId, id)]
                  /\ calls' = [calls EXCEPT ![r] = Append(@, "Notifying")]
                  /\ pc' = [pc EXCEPT ![r] = "Notifying"]
                  /\ UNCHANGED <<fs, thrown, resp>>
          ELSE /\ Catch(r, "ArchivingTranscript", <<d>>, fs, <<>>)
               /\ UNCHANGED <<loc, ok, drive>>
  /\ UNCHANGED <<variant, now, req, crmNotes>>

\* The streams other requests still hold open on a transcript path keep the
\* content the file had when it was unlinked.
AfterUnlink(l, r, f, g) ==
  [q \in Requests |->
     IF /\ q # r
        /\ pc[q] = "ArchivingTranscript"
        /\ l[q].textSent = NoText
        /\ Exists(f, l[q].textPath)
        /\ ~Exists(g, l[q].textPath)
     THEN [l[q] EXCEPT !.textSent = f[l[q].textPath]]
     ELSE l[q]]

\* A faulty success object with the two identifiers exchanged.
SuccessSwapped(dealId, textFileId, audioFileId) ==
  [status |-> 200, success |-> TRUE, dealId |-> dealId,
   textFileId |-> audioFileId, audioFileId |-> textFileId]

\* The success object of the 200 response.
Success(dealId, textFileId, audioFileId) ==
  [status |-> 200, success |-> TRUE, dealId |-> dealId,
   textFileId |-> textFileId, audioFileId |-> audioFileId]

\* sendAmoCrmNote settles; on success the CRM holds the note, and the
\* handler deletes its three temp files and responds, all in one turn of
\* the event loop. A throwing unlinkSync lands in the catch block.
NoteDone(r) ==
  /\ pc[r] = "Notifying"
  /\ \E outcome \in {"resolved", "rejected"}, d \in Details :
       /\ crmNotes' = IF outcome = "resolved"
                      THEN crmNotes \cup {[by |-> r, dealId |-> req[r].dealId,
                                           text |-> loc[r].noteText]}
                      ELSE crmNotes
       /\ IF Proceeds(outcome)
          THEN LET c == CleanupFs(fs, r, loc[r].textPath)
               IN /\ loc' = AfterUnlink(loc, r, fs, c.fs)
                  /\ IF c.err = NoError
                     THEN /\ fs' = c.fs
                          /\ ok' = [ok EXCEPT ![r] =
                                      Settled(@, "Notifying", outcome) \cup {"CleaningUp"}]
                          /\ resp' = [resp EXCEPT ![r] =
                                        Success(req[r].dealId, loc[r].textFileId,
                                                loc[r].audioFileId)]
                          /\ calls' = [calls EXCEPT ![r] = @ \o <<"CleaningUp", "Done">>]
                          /\ pc' = [pc EXCEPT ![r] = "done"]
                          /\ UNCHANGED thrown
                     ELSE /\ Catch(r, "CleaningUp", c.err, c.fs, <<"CleaningUp">>)
                          /\ ok' = [ok EXCEPT ![r] = Settled(@, "Notifying", outcome)]
          ELSE /\ Catch(r, "Notifying", <<d>>, fs, <<>>)
               /\ UNCHANGED <<loc, ok>>
  /\ UNCHANGED <<variant, now, req, drive>>

Next ==
  \/ \E r \in Requests : Upload(r)
  \/ \E r \in Requests : HandlerEntry(r)
  \/ \E r \in Requests : TranscribeDone(r)
  \/ \E r \in Requests : ConvertDone(r)
  \/ \E r \in Requests : UploadAudioDone(r)
  \/ \E r \in Requests : DriveReadText(r)
  \/ \E r \in Requests : UploadTextDone(r)
  \/ \E r \in Requests : NoteDone(r)

Spec == Init /\ [][Next]_vars

\* One request with an arbitrary MIME type, up to the call of transcribeAudio:
\* the specification under which the Format Resolver is examined.
NextMime ==
  \/ UploadAnyMime(1)
  \/ HandlerEntry(1)

SpecMime == Init /\ [][NextMime]_vars

\* ================================================================ claims
Range(s) == {s[i] : i \in 1..Len(s)}

StageIndex(stage) == CHOOSE i \in 1..Len(StageOrder) : StageOrder[i] = stage

\* The stages a request has begun, without the closing "Failed" mark.
Begun(r) ==
  LET c == calls[r]
  IN IF c # <<>> /\ c[Len(c)] = "Failed" THEN SubSeq(c, 1, Len(c) - 1) ELSE c

Responds(r, status) == resp[r].status = 0 /\ resp'[r].status = status

NoTempFileLeft(f, r, textPath) ==
  /\ ~Exists(f, AudioPath(r))
  /\ ~Exists(f, Mp3Path(r))
  /\ textPath # NoPath => ~Exists(f, textPath)

\* C1: when a request that passed the entry check answers 500, none of the
\* temp files it created (the uploaded audio, the .mp3, the transcript .txt
\* if already written) exists in scratch storage at that moment.
C1_FailureLeavesNoTempFile ==
  [][\A r \in Requests :
       Responds(r, 500) => NoTempFileLeft(fs', r, loc'[r].textPath)]_vars

\* C2: a request whose dealId is missing or empty, or that carries no audio
\* file, is answered 400 with an error field, and no upstream operation is
\* invoked for it.
C2_MissingInputRejected ==
  \A r \in Requests :
    (pc[r] # "idle" /\ (req[r].dealId = "" \/ ~req[r].hasFile)) =>
      /\ calls[r] = <<>>
      /\ \A f \in drive : f.by # r
      /\ \A n \in crmNotes : n.by # r
      /\ resp[r].status \in {0, 400}
      /\ pc[r] = "done" =>
           (resp[r].status = 400 /\ "error" \in DOMAIN resp[r])

C2_Witness ==
  \E r \in Requests :
    /\ req[r].dealId = ""
    /\ req[r].hasFile
    /\ resp[r].status = 400

Contains(body, part) == \E i \in 1..Len(body) : body[i] = part

\* C3: a 200 response carries the request's dealId, the identifier Drive
\* returned for the request's MP3 as audioFileId and the one it returned for
\* the request's transcript as textFileId; sendAmoCrmNote was invoked exactly
\* once for the request, with that dealId and a body containing the
\* transcript and the view URLs of exactly those two identifiers.
C3_SuccessResponse ==
  \A r \in Requests :
    resp[r].status = 200 =>
      /\ resp[r].dealId = req[r].dealId
      /\ \E a \in drive, t \in drive :
           /\ a.by = r /\ a.mimeType = "audio/mpeg" /\ a.content = <<"mp3", r>>
           /\ t.by = r /\ t.mimeType = "text/plain"
           /\ resp[r].audioFileId = a.id
           /\ resp[r].textFileId = t.id
           /\ Cardinality({i \in 1..Len(calls[r]) : calls[r][i] = "Notifying"}) = 1
           /\ \E n \in crmNotes :
                /\ {m \in crmNotes : m.by = r} = {n}
                /\ n.dealId = req[r].dealId
                /\ n.text = loc[r].noteText
                /\ Contains(n.text, Text(r))
                /\ Contains(n.text, ViewUrl(a.id))
                /\ Contains(n.text, ViewUrl(t.id))

C3_Witness ==
  \E r \in Requests : resp[r].status = 200 /\ resp[r].audioFileId # resp[r].textFileId

\* C4: when a stage of a request fails, no later stage of that request is
\* invoked, and the request is answered 500 with the thrown error's message
\* as its error field.
C4_FailureAborts ==
  \A r \in Requests :
    thrown[r].stage # "none" =>
      /\ Begun(r) = SubSeq(StageOrder, 1, StageIndex(thrown[r].stage))
      /\ pc[r] = "done"
      /\ resp[r].status = 500
      /\ resp[r].error = thrown[r].message

C4_Witness ==
  \E r \in Requests :
    /\ thrown[r].stage = "ArchivingAudio"
    /\ resp[r].status = 500
    /\ calls[r] = <<"Transcribing", "Transcoding", "ArchivingAudio", "Failed">>

\* The label the Format Resolver is to give a base type: mp4 for the MPEG-4
\* types, ogg, wav, mp3 for mpeg and mp3, webm for everything else.
ClaimedLabel(base) ==
  IF base \in {AudioMp4, AudioXM4a} THEN "mp4"
  ELSE IF base = AudioOgg THEN "ogg"
  ELSE IF base = AudioWav THEN "wav"
  ELSE IF base \in {AudioMpeg, AudioMp3} THEN "mp3"
  ELSE "webm"

\* C5: the container label in the transcription filename depends only on
\* the base MIME type, by the fixed table, whatever parameters follow ';'.
C5_LabelFromBaseOnly ==
  \A r \in Requests :
    loc[r].filename # <<>> => loc[r].filename = <<"audio.", ClaimedLabel(req[r].base)>>

\* C6: concurrent requests do not affect each other: a request is answered
\* 500 only when one of its own stages failed, and the transcript it stores
\* in Drive is its own transcription, as when it runs alone.
C6_RequestsIndependent ==
  \A r \in Requests :
    /\ resp[r].status = 500 => thrown[r].stage # "CleaningUp"
    /\ \A f \in drive :
         (f.by = r /\ f.mimeType = "text/plain") => f.content = Text(r)

\* The stages of a request that have begun and neither completed nor failed.
InProgress(r) ==
  {s \in Range(Begun(r)) : s \notin ok[r] /\ s # thrown[r].stage /\ s # "Done"}

\* C7: the stages of a request begin in the fixed order, each only after the
\* previous one completed successfully, never two at a time, and the 200
\* response is sent only after CleaningUp.
C7_StrictStageOrder ==
  \A r \in Requests :
    LET b == Begun(r)
    IN /\ Len(b) <= Len(StageOrder)
       /\ b = SubSeq(StageOrder, 1, Len(b))
       /\ \A i \in 2..Len(b) : b[i - 1] \in ok[r]
       /\ Cardinality(InProgress(r)) <= 1
       /\ resp[r].status = 200 => (calls[r] = StageOrder /\ "CleaningUp" \in ok[r])

C7_Witness == \E r \in Requests : calls[r] = StageOrder

\* C8: at the moment a request is answered 200, its uploaded audio file, its
\* .mp3 file and its transcript .txt file have been deleted.
C8_SuccessLeavesNoTempFile ==
  [][\A r \in Requests :
       Responds(r, 200) =>
         /\ loc[r].textPath # NoPath
         /\ NoTempFileLeft(fs', r, loc[r].textPath)]_vars

C8_Witness ==
  \E r \in Requests : resp[r].status = 200 /\ loc[r].textPath # NoPath

\* C9: a request rejected with 400 for a missing dealId, whose audio file was
\* saved to scratch storage, leaves no file of its own there.
C9_RejectedLeavesNoFile ==
  \A r \in Requests :
    (resp[r].status = 400 /\ req[r].hasFile) => ~Exists(fs, AudioPath(r))

\* C10: a request answered 500 has not posted a CRM note.
C10_ErrorMeansNoNote ==
  \A r \in Requests :
    resp[r].status = 500 => \A n \in crmNotes : n.by # r
====
